---- MODULE Spec2Model ----
(***************************************************************************)
(* State machine of the two GPU Marching Cubes programs                    *)
(* (examples/ch02/implicit_surface.rs and examples/ch03/metaball.rs):      *)
(* State::new (volume sizing and buffer allocation), the winit event loop  *)
(* of main, State::resize, State::input, State::update and State::render.  *)
(*                                                                         *)
(* The module also holds the Vulkan triangle of src/main.rs (App), the      *)
(* ShaderLoader of src/shader.rs and Terrain::new of src/terrain.rs, each  *)
(* with its own variables and specification.                               *)
(*                                                                         *)
(* u32 values are pairs <<hi, lo>> of 16-bit limbs (value hi*65536 + lo),  *)
(* so that Rust's 32-bit arithmetic keeps its width: a debug build panics  *)
(* on overflow, a release build wraps modulo 2^32.  u64 values (buffer     *)
(* sizes after `as u64`) use the same pairs with an unbounded hi part.     *)
(***************************************************************************)
EXTENDS Integers, Sequences, FiniteSets, TLC

\* ------------------------------------------------------------------ bounds
MaxRequested == 9
LargeRequested == 532
MaxDim == 2

\* number of metaballs the model runs (the program runs 200)
BallCount == 2

\* highest speed reached by key presses, in tenths
MaxSpeed == 12

\* seconds of a timed session
MaxTime == 11

\* longest pause between two events, in seconds
MaxStep == 3

\* seconds of a session of the metaball program
BallTime == 6

\* file saves the shader watcher may see
MaxEdits == 3

\* largest resolution Terrain::new is called with
MaxResolution == 4

\* default of the resolution argument
resolution_default == 192

Programs == {"implicit", "metaball"}
Builds == {"debug", "release"}
Requested == (0..MaxRequested) \cup {resolution_default, LargeRequested}
SampleCounts == {1, 4}
Dims == 0..MaxDim
SurfaceResults == {"Ok", "Timeout", "Outdated", "Lost", "OutOfMemory"}
Keys == {"Space", "LControl", "LShift", "LAlt", "Q", "A", "W", "S", "Escape", "Other"}

\* keys that change no field of State in either program
QuietKeys == {"Escape", "Other"}

\* ------------------------------------------------------- 32-bit arithmetic
Limb == 65536

u32(n) == <<n \div Limb, n % Limb>>

Lt(p, q) == p[1] < q[1] \/ (p[1] = q[1] /\ p[2] < q[2])

Le(p, q) == ~Lt(q, p)

\* exact product of two 16-bit limbs, as a pair
mul16(a, b) ==
    LET x == a * (b \div 256)
        y == a * (b % 256)
        l == (x % 256) * 256 + y
    IN  <<(x \div 256) + (l \div Limb), l % Limb>>

\* u32 * u32 modulo 2^32
wrapping_mul(p, q) ==
    LET ll == mul16(p[2], q[2])
        hl == mul16(p[1], q[2])
        lh == mul16(p[2], q[1])
    IN  <<(ll[1] + hl[2] + lh[2]) % Limb, ll[2]>>

\* the mathematical product does not fit in a u32
mul_overflows(p, q) ==
    LET ll == mul16(p[2], q[2])
        hl == mul16(p[1], q[2])
        lh == mul16(p[2], q[1])
    IN  \/ (p[1] > 0 /\ q[1] > 0)
        \/ hl[1] > 0
        \/ lh[1] > 0
        \/ ll[1] + hl[2] + lh[2] >= Limb

\* u32 - u32 modulo 2^32
wrapping_sub(p, q) ==
    LET lo == p[2] - q[2]
        borrow == IF lo < 0 THEN 1 ELSE 0
    IN  <<(p[1] - q[1] - borrow + Limb) % Limb, (lo + Limb) % Limb>>

sub_overflows(p, q) == Lt(p, q)

\* u32 + small constant modulo 2^32
wrapping_add(p, k) ==
    LET lo == p[2] + k
    IN  <<(p[1] + (lo \div Limb)) % Limb, lo % Limb>>

\* u32 / small constant and u32 % small constant
div_small(p, k) == <<p[1] \div k, ((p[1] % k) * Limb + p[2]) \div k>>

mod_small(p, k) == ((p[1] % k) * Limb + p[2]) % k

\* 64-bit product k * (p as u64), k a small constant: no wrap-around
mul_u64(k, p) ==
    LET lo == k * p[2]
    IN  <<k * p[1] + (lo \div Limb), lo % Limb>>

\* ------------------------------------------------------------ State::new
\* workgroup tile side of the compute shaders
tile(prog) == IF prog = "implicit" THEN 8 ELSE 4

\* ws::round_to_multiple: the number rounded up to a multiple of m
round_to_multiple(n, m) == wrapping_add(n, (m - mod_small(n, m)) % m)

marching_cube_cells(res) ==
    LET r1 == wrapping_sub(res, u32(1))
    IN  wrapping_mul(wrapping_mul(r1, r1), r1)

vertex_count(res) == wrapping_mul(u32(3 * 12), marching_cube_cells(res))

vertex_buffer_size(res) == wrapping_mul(u32(4), vertex_count(res))

new_index_count(res) == wrapping_mul(u32(15), marching_cube_cells(res))

index_buffer_size(res) == wrapping_mul(u32(4), new_index_count(res))

volume_elements(resol) == wrapping_mul(wrapping_mul(resol, resol), resol)

\* some u32 operation of the sizing overflows (a debug build panics there)
arithmetic_overflows(prog, res) ==
    LET r1 == wrapping_sub(res, u32(1))
        resol == round_to_multiple(res, tile(prog))
    IN  \/ sub_overflows(res, u32(1))
        \/ mul_overflows(r1, r1)
        \/ mul_overflows(wrapping_mul(r1, r1), r1)
        \/ mul_overflows(u32(3 * 12), marching_cube_cells(res))
        \/ mul_overflows(u32(4), vertex_count(res))
        \/ mul_overflows(u32(15), marching_cube_cells(res))
        \/ mul_overflows(u32(4), new_index_count(res))
        \/ mul_overflows(resol, resol)
        \/ mul_overflows(wrapping_mul(resol, resol), resol)

\* device limit requested for every buffer
max_buffer_size == u32(1024 * 1024 * 1024)

\* device limit requested for every storage-buffer binding
max_storage_buffer_binding_size(prog) ==
    IF prog = "implicit" THEN u32(1024 * 1024 * 1024) ELSE u32(1073741820)

\* the buffers whose size derives from the resolution, in creation order
sized_buffers(prog, res) ==
    LET resol == round_to_multiple(res, tile(prog))
    IN  << [name |-> "value",    size |-> mul_u64(4, volume_elements(resol))],
           [name |-> "position", size |-> vertex_buffer_size(res)],
           [name |-> "normal",   size |-> vertex_buffer_size(res)],
           [name |-> "color",    size |-> vertex_buffer_size(res)],
           [name |-> "index",    size |-> index_buffer_size(res)] >>

\* number of leading buffers that the device accepts
RECURSIVE accepted(_, _)
accepted(bufs, i) ==
    IF i > Len(bufs) \/ Lt(max_buffer_size, bufs[i].size)
    THEN i - 1
    ELSE accepted(bufs, i + 1)

\* every buffer bound into the compute bind groups fits the binding limit
bindable(prog, bufs) ==
    \A i \in 1..Len(bufs) :
        Le(bufs[i].size, max_storage_buffer_binding_size(prog))

\* slip: the requested resolution is stored instead of the rounded one
new_resolution_raw(prog, res) == res

\* the resolution stored in State
new_resolution(prog, res) == round_to_multiple(res, tile(prog))

\* aspect ratio width/height as a reduced fraction
RECURSIVE gcd(_, _)
gcd(a, b) == IF b = 0 THEN a ELSE gcd(b, a % b)

\* slip: the aspect is taken as height over width
create_projection_mat_inverted(w, h) == <<h \div gcd(w, h), w \div gcd(w, h)>>

\* the projection matrix, represented by its aspect w/h in lowest terms
create_projection_mat(w, h) == <<w \div gcd(w, h), h \div gcd(w, h)>>

\* ------------------------------------------------------------ fixed point
\* f32 quantities are kept as integers: seconds are whole, speeds are tenths,
\* metaball positions are thousandths, strength and subtract are hundredths

\* Instant::now() taken by main right after State::new
render_start_time == 0

\* period of the timers of update, in seconds
period == 5

\* colormap::colormap_data: the palette of a known name, an error otherwise
colormap_data(name) == IF name = "jet" THEN "palette" ELSE "unknown colormap"

\* a command line argument parsed with str::parse::<u32>().unwrap()
parse_u32(arg) == IF arg = "number" THEN "Ok" ELSE "Err"

Ball(px, py, pz, vx, vy, vz, s) ==
    [p |-> <<px, py, pz>>, v |-> <<vx, vy, vz>>, speed |-> s]

\* balls that State::new may draw: position in (-4, 4], velocity and speed
\* inside the ranges of the draws
BallDraws ==
    { Ball(0, 0, 0, 0, 0, 0, 10),
      Ball(3000, -3000, 0, 900, -9, 0, 10),
      Ball(-3900, 3900, 3000, 400, 9, 900, 22) }

BallsAtRest == [i \in 1..BallCount |-> Ball(0, 0, 0, 0, 0, 0, 10)]

BallSets == [1..BallCount -> BallDraws]

\* number of metaballs
metaballs_count(prog) == IF prog = "metaball" THEN BallCount ELSE 0

\* bytes of one metaball record
single_ball_buffer_size == 32

\* size in bytes of the metaball buffer
balls_buffer_size(count) == single_ball_buffer_size * count

\* vec![0f32; balls_buffer_size / 4]: eight floats per ball, all zero
new_metaball_array(count) == [i \in 1..(balls_buffer_size(count) \div 4) |-> 0]

\* the animation fields of State as State::new sets them
new_fields(prog) ==
    IF prog = "implicit"
    THEN [animation_speed |-> 10, rotation_speed |-> 10, surface_type |-> 2,
          colormap_direction |-> 1, colormap_reverse |-> 0,
          random_shape_change |-> 0,
          strength |-> 0, strength_target |-> 0,
          subtract |-> 0, subtract_target |-> 0]
    ELSE [animation_speed |-> 10, rotation_speed |-> 10, surface_type |-> 0,
          colormap_direction |-> 1, colormap_reverse |-> 0,
          random_shape_change |-> 0,
          strength |-> 100, strength_target |-> 100,
          subtract |-> 100, subtract_target |-> 100]

\* isolevel and scale, in tenths; no input changes them
isolevel(prog) == IF prog = "implicit" THEN 0 ELSE 200

scale(prog) == IF prog = "implicit" THEN 10 ELSE 5

\* ------------------------------------------------- tables and bind groups
\* marching_cubes_table::EDGE_TABLE.len() and TRI_TABLE.len(), in words
EDGE_TABLE_len == 256

TRI_TABLE_len == 4096

\* size in bytes of the table buffer
table_buffer_size == (EDGE_TABLE_len + TRI_TABLE_len) * 4

\* queue.write_buffer(buffer, offset, table): `words` u32 words of the table
TableWrite(offset, table, words) ==
    [op |-> "write_buffer", a |-> <<"cs_table_buffer", 0>>, b |-> offset,
     data |-> [table |-> table, words |-> words]]

\* slip: both tables are written at offset 0
table_writes_overlapping ==
    << TableWrite(0, "EDGE_TABLE", EDGE_TABLE_len),
       TableWrite(0, "TRI_TABLE", TRI_TABLE_len) >>

\* the two writes State::new makes to the table buffer
table_writes ==
    << TableWrite(0, "EDGE_TABLE", EDGE_TABLE_len),
       TableWrite(EDGE_TABLE_len * 4, "TRI_TABLE", TRI_TABLE_len) >>

Binding(buf, ty) == [buffer |-> buf, ty |-> ty]

\* bind group of the field (value) pass
cs_value_bind_group(prog) ==
    << Binding("cs_value_buffer", "storage_rw"),
       Binding("cs_value_int_buffer", "uniform"),
       IF prog = "implicit"
       THEN Binding("cs_value_float_buffer", "uniform")
       ELSE Binding("cs_value_metaball_buffer", "storage_ro") >>

\* slip: the normal buffer is bound before the position buffer
cs_bind_group_swapped(prog) ==
    << Binding("cs_table_buffer", "storage_ro"),
       Binding("cs_value_buffer", "storage_ro"),
       Binding("cs_normal_buffer", "storage_rw"),
       Binding("cs_position_buffer", "storage_rw"),
       Binding("cs_color_buffer", "storage_rw"),
       Binding("cs_index_buffer", "storage_rw"),
       Binding("cs_indirect_buffer", "storage_rw"),
       Binding("cs_colormap_buffer", "storage_ro"),
       Binding("cs_int_buffer", "uniform"),
       Binding("cs_float_buffer", "uniform") >>

\* bind group of the extraction pass, bindings 0..9
cs_bind_group(prog) ==
    << Binding("cs_table_buffer", "storage_ro"),
       Binding("cs_value_buffer", "storage_ro"),
       Binding("cs_position_buffer", "storage_rw"),
       Binding("cs_normal_buffer", "storage_rw"),
       Binding("cs_color_buffer", "storage_rw"),
       Binding("cs_index_buffer", "storage_rw"),
       Binding("cs_indirect_buffer", "storage_rw"),
       Binding("cs_colormap_buffer", "storage_ro"),
       Binding("cs_int_buffer", "uniform"),
       Binding("cs_float_buffer", "uniform") >>

\* State.cs_vertex_buffers, indexed from 0 in the program
cs_vertex_buffers ==
    <<"cs_value_buffer", "cs_position_buffer", "cs_normal_buffer",
      "cs_color_buffer">>

\* State.cs_index_buffer
cs_index_buffer == "cs_index_buffer"

VARIABLES
    cs_bind_groups, \* State.cs_bind_groups
    program,        \* which example runs
    build,          \* debug (overflow checks) or release (wrapping)
    requested,      \* the resolution argument
    sample_count,   \* init.sample_count
    cli,            \* the numeric command line arguments: "number" or not
    colormap_name,  \* the colormap argument
    pc,             \* "main", "new", "running", "panicked", "exited"
    error,          \* why the program panicked
    device_init,    \* IWgpuInit::new has requested the device
    buffers,        \* resolution-sized buffers created so far
    resolution,     \* State.resolution
    index_count,    \* State.index_count
    size,           \* init.size
    config,         \* init.config.width, init.config.height
    project_mat,    \* State.project_mat (its aspect)
    depth_texture_view,
    msaa_texture_view,
    control_flow,   \* *control_flow
    redraw,         \* a redraw was requested and not yet delivered
    event,          \* the event handled last
    ops,            \* device, queue and surface calls of the last handler
    exit_code,      \* process exit status, -1 while running
    now,            \* the clock read by Instant::now(), seconds
    t0,             \* State.t0
    start,          \* State.start (metaball)
    surface_type,
    random_shape_change,
    colormap_direction,
    colormap_reverse,
    animation_speed,
    rotation_speed,
    strength,
    strength_target,
    subtract,
    subtract_target,
    metaball_positions,
    metaball_array,
    auto_times,     \* history: times of the last two timer firings of update
    frame_time,     \* history: time of the last update
    integrated      \* history: sum over frames of rotation_speed * frame step

inputs == <<program, build, requested, sample_count, cli, colormap_name>>

anim == <<surface_type, random_shape_change, colormap_direction,
          colormap_reverse, animation_speed, rotation_speed>>

timers == <<t0, start>>

metaballs == <<strength, strength_target, subtract, subtract_target,
               metaball_positions, metaball_array>>

history == <<auto_times, frame_time, integrated>>

wgpu == <<inputs, pc, error, device_init, buffers, cs_bind_groups, resolution,
          index_count, size, config, project_mat, depth_texture_view,
          msaa_texture_view, control_flow, redraw, event, ops, exit_code,
          now, timers, anim, metaballs, history>>

\* ------------------------------------------- the Vulkan triangle (main.rs)
VARIABLES
    tri_pc,         \* "off", "new", "running", "panicked", "exited"
    window_size,    \* rcx.window.inner_size()
    rcx,            \* App.rcx: <<>> for None, <<render context>> for Some
    tri_queue,      \* events of the window system not yet delivered
    tri_event,      \* the event handled last and the way its handler ended
    tri_ops         \* swapchain and queue calls of the last handler

triangle == <<tri_pc, window_size, rcx, tri_queue, tri_event, tri_ops>>

TriOp(o, e) == [op |-> o, extent |-> e]

TriEvent(k, a, f, e) == [kind |-> k, acquire |-> a, flush |-> f, end |-> e]

\* what swapchain.recreate, acquire_next_image and the flush may answer
RecreateResults == {"Ok", "Err"}
AcquireResults == {"Ok", "Suboptimal", "OutOfDate", "Err"}
FlushResults == {"Ok", "OutOfDate", "Err"}

\* the render context App::resumed builds for a window of size ws
resumed(ws) ==
    [swapchain |-> ws, framebuffers |-> ws, viewport |-> ws,
     recreate_swapchain |-> FALSE, previous_frame_end |-> "Some"]

\* RedrawRequested returns at once for a window without area
zero_area(ws) == ws[1] = 0 \/ ws[2] = 0

\* slip: the viewport keeps the extent of the old swapchain
recreated_stale_viewport(r, ws) ==
    [r EXCEPT !.swapchain = ws, !.framebuffers = ws,
              !.recreate_swapchain = FALSE]

\* the block under `if rcx.recreate_swapchain`, when recreate succeeds
recreated(r, ws) ==
    [r EXCEPT !.swapchain = ws, !.framebuffers = ws, !.viewport = ws,
              !.recreate_swapchain = FALSE]

\* slip: an out of date flush leaves previous_frame_end taken
flushed_not_restored(r, flush) ==
    CASE flush = "Ok" -> [r EXCEPT !.previous_frame_end = "Some"]
      [] flush = "OutOfDate" -> [r EXCEPT !.recreate_swapchain = TRUE]
      [] OTHER -> r

\* the match on the result of then_signal_fence_and_flush
flushed(r, flush) ==
    CASE flush = "Ok" -> [r EXCEPT !.previous_frame_end = "Some"]
      [] flush = "OutOfDate" ->
            [r EXCEPT !.recreate_swapchain = TRUE,
                      !.previous_frame_end = "Some"]
      [] OTHER -> r

TriResult(r, o, e) == [rcx |-> r, ops |-> o, end |-> e]

\* the RedrawRequested arm from the acquisition on
acquire_and_draw(r, o, acquire, flush) ==
    LET o1 == Append(o, TriOp("acquire_next_image", r.swapchain))
    IN  CASE acquire = "OutOfDate" ->
                TriResult([r EXCEPT !.recreate_swapchain = TRUE], o1, "return")
          [] acquire = "Err" -> TriResult(r, o1, "panic acquire")
          [] OTHER ->
                LET r1 == IF acquire = "Suboptimal"
                          THEN [r EXCEPT !.recreate_swapchain = TRUE]
                          ELSE r
                    o2 == o1 \o <<TriOp("begin_render_pass", r1.framebuffers),
                                  TriOp("set_viewport", r1.viewport),
                                  TriOp("draw", r1.viewport),
                                  TriOp("take", r1.swapchain),
                                  TriOp("then_swapchain_present", r1.swapchain)>>
                    r2 == flushed([r1 EXCEPT !.previous_frame_end = "None"],
                                  flush)
                IN  TriResult(r2, o2, IF flush = "Err" THEN "panic flush"
                                                       ELSE "return")

\* the RedrawRequested arm of App::window_event
redraw_requested(r, ws, recreate, acquire, flush) ==
    IF zero_area(ws) THEN TriResult(r, <<>>, "return")
    ELSE IF r.previous_frame_end = "None"
    THEN TriResult(r, <<>>, "panic unwrap")
    ELSE LET o == <<TriOp("cleanup_finished", r.swapchain)>>
         IN  IF r.recreate_swapchain
             THEN LET o1 == Append(o, TriOp("recreate", ws))
                  IN  IF recreate = "Err"
                      THEN TriResult(r, o1, "panic recreate")
                      ELSE acquire_and_draw(
                               recreated(r, ws),
                               Append(o1, TriOp("window_size_dependent_setup",
                                                ws)),
                               acquire, flush)
             ELSE acquire_and_draw(r, o, acquire, flush)

\* the triangle program is not running
TriangleIdle ==
    /\ tri_pc = "off"
    /\ window_size = <<0, 0>>
    /\ rcx = <<>>
    /\ tri_queue = [redraw |-> FALSE, resized |-> FALSE]
    /\ tri_event = TriEvent("Init", "", "", "")
    /\ tri_ops = <<>>

\* --------------------------------------------- ShaderLoader (shader.rs)
VARIABLES
    ld_pc,          \* where the watcher thread stands, "off" when not started
    ld_local,       \* the thread's locals: reload number, sources, modules
    files,          \* versions of the vertex and the fragment shader file
    channel,        \* the mpsc channel: events queued, sender still alive
    shader_module,  \* the shared value: <<>> for None, <<vert, frag>>
    mutex,          \* who holds the mutex: "free", "watcher", "reader"
    observed,       \* what the reader saw at its last lock
    ld_event        \* the step taken last

loader == <<ld_pc, ld_local, files, channel, shader_module, mutex, observed,
            ld_event>>

\* ShaderModule::from_source in reload n of source version code
Module(n, code) == [reload |-> n, code |-> code]

NoLocals == [reload |-> 0, vert_code |-> 0, frag_code |-> 0]

\* slip: only the vertex module of a published pair is replaced
publish_vertex_only(cur, vert, frag) ==
    IF cur = <<>> THEN <<vert, frag>> ELSE <<vert, cur[2]>>

\* *shader_module = Some((vert_shader_module, frag_shader_module))
publish(cur, vert, frag) == <<vert, frag>>

\* the Err arm of the match on rx.recv(): print and loop
after_recv_error(p) == "recv"

\* no ShaderLoader has been made
LoaderIdle ==
    /\ ld_pc = "off"
    /\ ld_local = NoLocals
    /\ files = <<0, 0>>
    /\ channel = [events |-> 0, sender |-> FALSE]
    /\ shader_module = <<>>
    /\ mutex = "free"
    /\ observed = <<>>
    /\ ld_event = "Init"

\* ----------------------------------------------- Terrain::new (terrain.rs)
VARIABLES
    tr_pc,          \* "off", "new", "built"
    tr_resolution,  \* the argument of Terrain::new
    tr_noise,       \* the values perlin.get returns, by grid point, tenths
    tr_mesh         \* the Terrain returned: vertices and indices

terrains == <<tr_pc, tr_resolution, tr_noise, tr_mesh>>

\* let iso_level: f32 = 0.5, in tenths
iso_level == 5

\* values of the noise below, on and above the level, in tenths
NoiseValues == {2, 5, 8}

Resolutions == 1..MaxResolution

\* the grid points whose noise Terrain::new(res) reads
Points(res) == (0..res - 1) \X (0..res - 1) \X (0..res - 1)

\* the noise fields drawn: a profile of res values laid along the diagonals
NoiseFields(res) ==
    {[p \in Points(res) |-> prof[(p[1] + p[2] + p[3]) % res]] :
         prof \in [0..res - 1 -> NoiseValues]}

\* perlin.get(p) for the point p / grid_spacing
perlin_get(noise, p) == noise[p]

\* the condition under which a cell pushes its vertex
crosses(v000, v100) ==
    \/ v000 < iso_level /\ v100 >= iso_level
    \/ v000 > iso_level /\ v100 <= iso_level

\* the three loops over 0..resolution-1, x innermost: cell number n
cell(res, n) ==
    <<n % (res - 1), (n \div (res - 1)) % (res - 1),
      n \div ((res - 1) * (res - 1))>>

\* indices.push(vertices.len() as u32)
next_index(vertices) == Len(vertices)

RECURSIVE cells(_, _, _, _)
\* the loop body for the cells n.. of the grid; coordinates in halves
cells(res, noise, n, mesh) ==
    IF n >= (res - 1) * (res - 1) * (res - 1) THEN mesh
    ELSE LET c == cell(res, n)
             v000 == perlin_get(noise, c)
             v100 == perlin_get(noise, <<c[1] + 1, c[2], c[3]>>)
         IN  cells(res, noise, n + 1,
                   IF crosses(v000, v100)
                   THEN [vertices |->
                             Append(mesh.vertices,
                                    <<2 * c[1] + 1, 2 * c[2], 2 * c[3]>>),
                         indices |->
                             Append(mesh.indices,
                                    next_index(mesh.vertices))]
                   ELSE mesh)

NoMesh == [vertices |-> <<>>, indices |-> <<>>]

\* Terrain::new(resolution) for resolution >= 1
Terrain_new(res, noise) == cells(res, noise, 0, NoMesh)

\* Terrain::new has not been called
TerrainIdle ==
    /\ tr_pc = "off"
    /\ tr_resolution = 1
    /\ tr_noise = <<>>
    /\ tr_mesh = NoMesh

vars == <<wgpu, triangle, loader, terrains>>

Op(o, x, y) == [op |-> o, a |-> x, b |-> y]

\* queue.write_buffer(buffer, offset, data)
Write(buf, offset, data) ==
    [op |-> "write_buffer", a |-> buf, b |-> offset, data |-> data]

Event(k, x) == [kind |-> k, key |-> x]

\* the start of a run for given sets of inputs
BootState(progs, builds, reqs, samples, sizes, clis, cmaps, ballsets, pc0) ==
    /\ program \in progs
    /\ build \in builds
    /\ requested \in reqs
    /\ sample_count \in samples
    /\ cli \in clis
    /\ colormap_name \in cmaps
    /\ pc = pc0
    /\ error = ""
    /\ device_init = FALSE
    /\ buffers = <<>>
    /\ cs_bind_groups = <<>>
    /\ resolution = u32(0)
    /\ index_count = u32(0)
    /\ size \in sizes
    /\ config = size
    /\ project_mat = <<0, 0>>
    /\ depth_texture_view = <<0, 0>>
    /\ msaa_texture_view = <<0, 0>>
    /\ control_flow = "Poll"
    /\ redraw = FALSE
    /\ event = Event("Init", "")
    /\ ops = <<>>
    /\ exit_code = -1
    /\ now = 0
    /\ t0 = 0
    /\ start = 0
    /\ surface_type = 0
    /\ random_shape_change = 0
    /\ colormap_direction = 0
    /\ colormap_reverse = 0
    /\ animation_speed = 0
    /\ rotation_speed = 0
    /\ strength = 0
    /\ strength_target = 0
    /\ subtract = 0
    /\ subtract_target = 0
    /\ metaball_positions \in ballsets
    /\ metaball_array = new_metaball_array(metaballs_count(program))
    /\ auto_times = <<-1, -1>>
    /\ frame_time = 0
    /\ integrated = 0

\* a run of one of the two Marching Cubes programs: the others are off
Boot(progs, builds, reqs, samples, sizes, clis, cmaps, ballsets, pc0) ==
    /\ BootState(progs, builds, reqs, samples, sizes, clis, cmaps, ballsets,
                 pc0)
    /\ TriangleIdle
    /\ LoaderIdle
    /\ TerrainIdle

\* the sizes the window may have when the program starts
Sizes == {<<1, 1>>, <<MaxDim, 1>>}

Init ==
    Boot(Programs, Builds, Requested, SampleCounts, Sizes, {"number"}, {"jet"},
         {BallsAtRest}, "new")

\* main up to the call of State::new: the arguments are parsed first
Main ==
    /\ pc = "main"
    /\ IF parse_u32(cli) = "Err"
       THEN pc' = "panicked" /\ error' = "parse"
       ELSE pc' = "new" /\ error' = ""
    /\ event' = Event("Main", "")
    /\ UNCHANGED <<triangle, loader, terrains, inputs, device_init, buffers, cs_bind_groups, resolution, index_count, size,
                   config, project_mat, depth_texture_view, msaa_texture_view,
                   control_flow, redraw, ops, exit_code, now, timers, anim,
                   metaballs, history>>

\* State::new, called once from main before the event loop
StateNew ==
    /\ pc = "new"
    /\ device_init' = TRUE
    /\ LET res == u32(requested)
           bufs == sized_buffers(program, res)
           n == accepted(bufs, 1)
           f == new_fields(program)
       IN  IF build = "debug" /\ arithmetic_overflows(program, res)
           THEN /\ pc' = "panicked"
                /\ error' = "overflow"
                /\ ops' = <<>>
                /\ UNCHANGED <<buffers, cs_bind_groups, resolution, index_count, project_mat,
                               depth_texture_view, msaa_texture_view, anim,
                               strength, strength_target, subtract,
                               subtract_target>>
           ELSE IF n < Len(bufs)
           THEN /\ pc' = "panicked"
                /\ error' = "validation"
                /\ buffers' = SubSeq(bufs, 1, n)
                /\ ops' = IF n >= 1 THEN table_writes ELSE <<>>
                /\ UNCHANGED <<cs_bind_groups, resolution, index_count, project_mat,
                               depth_texture_view, msaa_texture_view, anim,
                               strength, strength_target, subtract,
                               subtract_target>>
           ELSE IF colormap_data(colormap_name) # "palette"
           THEN /\ pc' = "panicked"
                /\ error' = "colormap"
                /\ buffers' = bufs
                /\ ops' = table_writes
                /\ UNCHANGED <<cs_bind_groups, resolution, index_count, project_mat,
                               depth_texture_view, msaa_texture_view, anim,
                               strength, strength_target, subtract,
                               subtract_target>>
           ELSE IF ~bindable(program, bufs)
           THEN /\ pc' = "panicked"
                /\ error' = "validation"
                /\ buffers' = bufs
                /\ ops' = table_writes
                /\ UNCHANGED <<cs_bind_groups, resolution, index_count, project_mat,
                               depth_texture_view, msaa_texture_view, anim,
                               strength, strength_target, subtract,
                               subtract_target>>
           ELSE /\ pc' = "running"
                /\ error' = ""
                /\ buffers' = bufs
                /\ ops' = table_writes
                /\ cs_bind_groups' = <<cs_value_bind_group(program),
                                       cs_bind_group(program)>>
                /\ resolution' = new_resolution(program, res)
                /\ index_count' = new_index_count(res)
                /\ project_mat' = create_projection_mat(config[1], config[2])
                /\ depth_texture_view' = config
                /\ msaa_texture_view' = config
                /\ surface_type' = f.surface_type
                /\ random_shape_change' = f.random_shape_change
                /\ colormap_direction' = f.colormap_direction
                /\ colormap_reverse' = f.colormap_reverse
                /\ animation_speed' = f.animation_speed
                /\ rotation_speed' = f.rotation_speed
                /\ strength' = f.strength
                /\ strength_target' = f.strength_target
                /\ subtract' = f.subtract
                /\ subtract_target' = f.subtract_target
    /\ t0' = now
    /\ start' = now
    /\ event' = Event("New", "")
    /\ UNCHANGED <<triangle, loader, terrains, inputs, size, config, control_flow, redraw, exit_code,
                   now, metaball_positions, metaball_array, history>>

\* --------------------------------------------------------- State::resize
\* slip: the multisample view is rebuilt whatever the sample count
resize_ops_always_msaa(prog, samples, w, h) ==
    <<Op("configure", <<w, h>>, 0)>>
    \o (IF prog = "metaball"
        THEN <<Op("write_buffer", <<"uniform_buffers", 0>>, 0)>>
        ELSE <<>>)
    \o <<Op("create_depth_view", <<w, h>>, 0)>>
    \o <<Op("create_msaa_texture_view", <<w, h>>, 0)>>

\* calls made by State::resize for a new non-zero size
resize_ops(prog, samples, w, h) ==
    <<Op("configure", <<w, h>>, 0)>>
    \o (IF prog = "metaball"
        THEN <<Op("write_buffer", <<"uniform_buffers", 0>>, 0)>>
        ELSE <<>>)
    \o <<Op("create_depth_view", <<w, h>>, 0)>>
    \o (IF samples > 1 THEN <<Op("create_msaa_texture_view", <<w, h>>, 0)>> ELSE <<>>)

\* slip: a side of one pixel is rejected as well
resize_accepts_strict(w, h) == w > 1 /\ h > 1

\* State::resize acts only on a size with both sides non-zero
resize_accepts(w, h) == w > 0 /\ h > 0

\* slip: one non-zero side is enough for resize to act
resize_either(prog, samples, st, w, h) ==
    IF w > 0 \/ h > 0
    THEN [size |-> <<w, h>>,
          config |-> <<w, h>>,
          project_mat |-> create_projection_mat(w, h),
          depth |-> <<w, h>>,
          msaa |-> IF samples > 1 THEN <<w, h>> ELSE st.msaa,
          calls |-> resize_ops(prog, samples, w, h)]
    ELSE [st EXCEPT !.calls = <<>>]

\* State after resize(new_size): <<size, config, project_mat, depth, msaa, calls>>
resize(prog, samples, st, w, h) ==
    IF resize_accepts(w, h)
    THEN [size |-> <<w, h>>,
          config |-> <<w, h>>,
          project_mat |-> create_projection_mat(w, h),
          depth |-> <<w, h>>,
          msaa |-> IF samples > 1 THEN <<w, h>> ELSE st.msaa,
          calls |-> resize_ops(prog, samples, w, h)]
    ELSE [st EXCEPT !.calls = <<>>]

\* the size-dependent part of State that resize works on
SizeState ==
    [size |-> size, config |-> config, project_mat |-> project_mat,
     depth |-> depth_texture_view, msaa |-> msaa_texture_view, calls |-> <<>>]

\* ---------------------------------------------------------- State::input
\* slip: Escape is consumed by State::input as well
input_with_escape(prog, key) ==
    IF prog = "implicit"
    THEN key \in {"Space", "LControl", "LShift", "LAlt", "Q", "A", "W", "S",
                  "Escape"}
    ELSE key \in {"Space", "LControl", "Escape"}

\* the pressed keys State::input consumes (returns true for)
input(prog, key) ==
    IF prog = "implicit"
    THEN key \in {"Space", "LControl", "LShift", "LAlt", "Q", "A", "W", "S"}
    ELSE key \in {"Space", "LControl"}

\* slip: the lowered speed is not clamped
slower_unclamped(speed) == speed - 1

\* a speed lowered by 0.1 and clamped at 0
slower(speed) == IF speed - 1 < 0 THEN 0 ELSE speed - 1

\* slip: the direction is not wrapped
next_direction_unwrapped(d) == d + 1

\* colormap_direction after the direction key
next_direction(d) == (d + 1) % 4

\* the key-controlled fields of State
AnimState ==
    [surface_type |-> surface_type,
     random_shape_change |-> random_shape_change,
     colormap_direction |-> colormap_direction,
     colormap_reverse |-> colormap_reverse,
     animation_speed |-> animation_speed,
     rotation_speed |-> rotation_speed]

\* the key-controlled fields after State::input of a pressed key
input_fields(prog, key, st) ==
    IF prog = "implicit"
    THEN CASE key = "Space" ->
                [st EXCEPT !.surface_type = (st.surface_type + 1) % 9]
           [] key = "LControl" ->
                [st EXCEPT !.colormap_direction = next_direction(st.colormap_direction)]
           [] key = "LShift" ->
                [st EXCEPT !.random_shape_change = (st.random_shape_change + 1) % 2]
           [] key = "LAlt" ->
                [st EXCEPT !.colormap_reverse =
                               IF st.colormap_reverse = 0 THEN 1 ELSE 0]
           [] key = "Q" -> [st EXCEPT !.animation_speed = st.animation_speed + 1]
           [] key = "A" -> [st EXCEPT !.animation_speed = slower(st.animation_speed)]
           [] key = "W" -> [st EXCEPT !.rotation_speed = st.rotation_speed + 1]
           [] key = "S" -> [st EXCEPT !.rotation_speed = slower(st.rotation_speed)]
           [] OTHER -> st
    ELSE CASE key = "Space" ->
                [st EXCEPT !.colormap_direction = next_direction(st.colormap_direction)]
           [] key = "LControl" ->
                [st EXCEPT !.colormap_reverse =
                               IF st.colormap_reverse = 0 THEN 1 ELSE 0]
           [] OTHER -> st

\* --------------------------------------------------------- State::update
\* slip: the surface timer fires one second early
surface_timer_early(elapsed, random) == elapsed >= period - 1 /\ random = 0

\* the timer of the automatic change of surface_type has fired
surface_timer(elapsed, random) == elapsed >= period /\ random = 0

\* the timer of the metaball targets has fired
target_timer(elapsed) == elapsed >= period

\* a resampled target 3.0 * r + 3.0 for a draw r of hundredths in [0, 1)
target(r) == 3 * r + 300

\* the angle passed to the model matrix, in tenths of a radian
rotation(speed, dt) == speed * dt

\* strength or subtract relaxed towards its target over dt1 seconds
relax(cur, tgt, dt1) == cur + ((tgt - cur) * dt1 * 2) \div 10

\* half extent of the box the metaballs stay in
sz == 3100

\* velocity after the acceleration step: v += -p * speed * 20
accelerate(p, v, speed) == v - (p * speed) \div 500

\* position after the move: p += v * dt1 * 0.0001
move(p, v, dt1) == p + (v * dt1) \div 10

\* slip: the position is clamped and the velocity kept
clamp_keep(p, v) ==
    IF p > sz THEN <<sz, v>>
    ELSE IF p < -sz THEN <<-sz, v>>
    ELSE <<p, v>>

\* keep one component inside the box: <<position, velocity>>
clamp(p, v) ==
    IF p > sz THEN <<sz, -v>>
    ELSE IF p < -sz THEN <<-sz, -v>>
    ELSE <<p, v>>

\* one component of one ball over one update
axis(p, v, speed, dt1) ==
    LET v1 == accelerate(p, v, speed)
    IN  clamp(move(p, v1, dt1), v1)

\* one ball over one update
ball_step(b, dt1) ==
    LET c == [k \in 1..3 |-> axis(b.p[k], b.v[k], b.speed, dt1)]
    IN  [p |-> <<c[1][1], c[2][1], c[3][1]>>,
         v |-> <<c[1][2], c[2][2], c[3][2]>>,
         speed |-> b.speed]

\* largest r in lo..hi with r * r <= n
RECURSIVE sqrt_floor(_, _, _)
sqrt_floor(n, lo, hi) ==
    IF lo >= hi THEN lo
    ELSE LET mid == (lo + hi + 1) \div 2
         IN  IF mid * mid <= n THEN sqrt_floor(n, mid, hi)
                               ELSE sqrt_floor(n, lo, mid - 1)

\* (strength / subtract).sqrt() in hundredths; "NaN" outside the domain
radius(str, sub) ==
    IF sub <= 0 \/ str < 0 THEN "NaN"
    ELSE sqrt_floor((10000 * str) \div sub, 0, 4000)

\* slip: the records are packed six floats apart
record_offset_packed(i) == i * 6

\* first float of record i (counted from 0) in metaball_array
record_offset(i) == i * 8

\* metaball_array after the fill loop of update
fill(arr, balls, str, sub) ==
    [j \in 1..Len(arr) |->
        IF \E i \in 0..(Len(balls) - 1) : j - 1 \in
               record_offset(i)..(record_offset(i) + 5)
        THEN LET i == CHOOSE i \in 0..(Len(balls) - 1) :
                          j - 1 \in record_offset(i)..(record_offset(i) + 5)
                 k == j - 1 - record_offset(i)
             IN  CASE k \in 0..2 -> balls[i + 1].p[k + 1]
                   [] k = 3 -> radius(str, sub)
                   [] k = 4 -> str
                   [] k = 5 -> sub
        ELSE arr[j]]

\* the whole state that State::update reads and writes
UpdateState ==
    [resolution |-> resolution, project_mat |-> project_mat,
     t0 |-> t0, start |-> start,
     surface_type |-> surface_type,
     random_shape_change |-> random_shape_change,
     colormap_direction |-> colormap_direction,
     colormap_reverse |-> colormap_reverse,
     animation_speed |-> animation_speed,
     rotation_speed |-> rotation_speed,
     strength |-> strength, strength_target |-> strength_target,
     subtract |-> subtract, subtract_target |-> subtract_target,
     metaball_positions |-> metaball_positions,
     metaball_array |-> metaball_array,
     fired |-> FALSE, calls |-> <<>>]

\* slip: the draw covers the whole enumeration of surfaces
SurfaceDrawsAll == 0..10

\* rng.gen_range(0..=8)
SurfaceDraws == 0..8

\* rng.sample(Uniform::new(0.0, 1.0)), in hundredths
TargetDraws == {0, 50, 99}

\* State::update of the implicit surface program at time t, dt since
\* render_start_time, with draw r for the new surface
update_implicit(st, t, dt, r) ==
    LET dt1 == rotation(st.rotation_speed, dt)
        fire == surface_timer(t - st.t0, st.random_shape_change)
        surface == IF fire THEN r ELSE st.surface_type
    IN  [st EXCEPT
          !.surface_type = surface,
          !.t0 = IF fire THEN t ELSE st.t0,
          !.fired = fire,
          !.calls =
            << Write(<<"uniform_buffers", 0>>, 0, <<st.project_mat>>),
               Write(<<"uniform_buffers", 0>>, 64, <<dt1>>),
               Write(<<"uniform_buffers", 0>>, 128, <<dt1>>),
               Write(<<"cs_uniform_buffers", 0>>, 0,
                     <<st.resolution, u32(surface), u32(0), u32(0)>>),
               Write(<<"cs_uniform_buffers", 1>>, 0,
                     <<st.animation_speed * dt, 0, 0, 0>>),
               Write(<<"cs_uniform_buffers", 2>>, 0,
                     <<st.resolution, u32(surface), u32(st.colormap_direction),
                       u32(st.colormap_reverse)>>),
               Write(<<"cs_uniform_buffers", 3>>, 0,
                     <<isolevel("implicit"), scale("implicit"), 0, 0>>),
               Write(<<"cs_uniform_buffers", 4>>, 0,
                     <<u32(500), u32(0), u32(0), u32(0)>>) >>]

\* State::update of the metaball program at time t with draws r1 and r2
\* for the new targets
update_metaball(st, t, r1, r2) ==
    LET dt1 == t - st.start
        sub == relax(st.subtract, st.subtract_target, dt1)
        str == relax(st.strength, st.strength_target, dt1)
        balls == [i \in 1..Len(st.metaball_positions) |->
                     ball_step(st.metaball_positions[i], dt1)]
        arr == fill(st.metaball_array, balls, str, sub)
        fire == target_timer(t - st.t0)
    IN  [st EXCEPT
          !.start = t,
          !.subtract = sub,
          !.strength = str,
          !.metaball_positions = balls,
          !.metaball_array = arr,
          !.subtract_target = IF fire THEN target(r1) ELSE st.subtract_target,
          !.strength_target = IF fire THEN target(r2) ELSE st.strength_target,
          !.fired = fire,
          !.calls =
            << Write(<<"cs_uniform_buffers", 0>>, 0,
                     <<st.resolution, u32(Len(balls)), u32(0), u32(0)>>),
               Write(<<"cs_uniform_buffers", 1>>, 0, arr),
               Write(<<"cs_uniform_buffers", 2>>, 0,
                     <<st.resolution, u32(st.colormap_direction),
                       u32(st.colormap_reverse)>>),
               Write(<<"cs_uniform_buffers", 3>>, 0,
                     <<isolevel("metaball"), scale("metaball"), 0, 0>>),
               Write(<<"cs_uniform_buffers", 4>>, 0,
                     <<u32(500), u32(0), u32(0), u32(0)>>) >>]

\* the values the k-th draw of an update at time t can take; a draw that
\* is not made is 0
draws(prog, st, t, k) ==
    IF prog = "implicit"
    THEN IF k = 1 /\ surface_timer(t - st.t0, st.random_shape_change)
         THEN SurfaceDraws ELSE {0}
    ELSE IF target_timer(t - st.t0) THEN TargetDraws ELSE {0}

\* State::update(dt) called at time t
update(prog, st, t, dt, r1, r2) ==
    IF prog = "implicit"
    THEN update_implicit(st, t, dt, r1)
    ELSE update_metaball(st, t, r1, r2)

\* --------------------------------------------------------- State::render
\* workgroups per axis of both compute passes
dispatch_workgroups(prog, resol) ==
    LET n == div_small(resol, tile(prog)) IN <<n, n, n>>

\* slip: the extraction pass is recorded before the field pass
encoder_swapped(prog, resol, count) ==
    << [pass |-> "compute", pipeline |-> 1, bind_group |-> 1,
        dispatch |-> dispatch_workgroups(prog, resol),
        vertex_buffers |-> <<>>, draw |-> u32(0),
        index_buffer |-> ""],
       [pass |-> "compute", pipeline |-> 0, bind_group |-> 0,
        dispatch |-> dispatch_workgroups(prog, resol),
        vertex_buffers |-> <<>>, draw |-> u32(0),
        index_buffer |-> ""],
       [pass |-> "render", pipeline |-> 0, bind_group |-> 0,
        dispatch |-> <<>>,
        vertex_buffers |-> <<1, 2, 3>>, draw |-> count,
        index_buffer |-> cs_index_buffer] >>

\* the passes recorded into the command encoder, in recording order
encoder(prog, resol, count) ==
    << [pass |-> "compute", pipeline |-> 0, bind_group |-> 0,
        dispatch |-> dispatch_workgroups(prog, resol),
        vertex_buffers |-> <<>>, draw |-> u32(0),
        index_buffer |-> ""],
       [pass |-> "compute", pipeline |-> 1, bind_group |-> 1,
        dispatch |-> dispatch_workgroups(prog, resol),
        vertex_buffers |-> <<>>, draw |-> u32(0),
        index_buffer |-> ""],
       [pass |-> "render", pipeline |-> 0, bind_group |-> 0,
        dispatch |-> <<>>,
        vertex_buffers |-> <<1, 2, 3>>, draw |-> count,
        index_buffer |-> cs_index_buffer] >>

\* one begin_compute_pass / begin_render_pass call per recorded pass
begin_passes(enc) ==
    [i \in 1..Len(enc) |->
        Op(IF enc[i].pass = "compute" THEN "begin_compute_pass"
                                      ELSE "begin_render_pass", i, 0)]

\* slip: the frame is presented before the command buffer is submitted
render_present_first(prog, resol, count, result) ==
    IF result # "Ok"
    THEN <<Op("get_current_texture", result, 0)>>
    ELSE << Op("get_current_texture", result, 0),
            Op("create_command_encoder", 0, 0) >>
         \o begin_passes(encoder(prog, resol, count))
         \o << Op("present", 0, 0),
               Op("submit", encoder(prog, resol, count), 0) >>

\* calls of State::render when get_current_texture returns `result`
render(prog, resol, count, result) ==
    IF result # "Ok"
    THEN <<Op("get_current_texture", result, 0)>>
    ELSE << Op("get_current_texture", result, 0),
            Op("create_command_encoder", 0, 0) >>
         \o begin_passes(encoder(prog, resol, count))
         \o << Op("submit", encoder(prog, resol, count), 0),
               Op("present", 0, 0) >>

\* ------------------------------------------------------------------ main
\* slip: every surface error other than Lost ends the loop
after_render_strict(result, flow) ==
    IF result \in {"OutOfMemory", "Timeout", "Outdated"} THEN "Exit" ELSE flow

\* control flow after the match on the result of render
after_render(result, flow) == IF result = "OutOfMemory" THEN "Exit" ELSE flow

\* size passed to resize when render reports a lost surface
lost_size(cur) == cur

\* process exit status of ControlFlow::Exit
exit_status(flow) == 0

Running == pc = "running" /\ control_flow = "Poll"

\* WindowEvent::KeyboardInput, pressed
KeyboardInput(key) ==
    /\ Running
    /\ \E f \in {input_fields(program, key, AnimState)} :
           /\ f.animation_speed <= MaxSpeed
           /\ f.rotation_speed <= MaxSpeed
           /\ surface_type' = f.surface_type
           /\ random_shape_change' = f.random_shape_change
           /\ colormap_direction' = f.colormap_direction
           /\ colormap_reverse' = f.colormap_reverse
           /\ animation_speed' = f.animation_speed
           /\ rotation_speed' = f.rotation_speed
    /\ event' = Event("KeyboardInput", key)
    /\ ops' = <<>>
    /\ control_flow' = IF ~input(program, key) /\ key = "Escape"
                       THEN "Exit" ELSE control_flow
    /\ UNCHANGED <<triangle, loader, terrains, inputs, pc, error, device_init, buffers, cs_bind_groups,
                   resolution, index_count, size, config, project_mat,
                   depth_texture_view, msaa_texture_view, redraw, exit_code,
                   now, timers, metaballs, history>>

\* WindowEvent::CloseRequested
CloseRequested ==
    /\ Running
    /\ event' = Event("CloseRequested", "")
    /\ ops' = <<>>
    /\ control_flow' = "Exit"
    /\ UNCHANGED <<triangle, loader, terrains, inputs, pc, error, device_init, buffers, cs_bind_groups,
                   resolution, index_count, size, config, project_mat,
                   depth_texture_view, msaa_texture_view, redraw, exit_code,
                   now, timers, anim, metaballs, history>>

\* WindowEvent::Resized and WindowEvent::ScaleFactorChanged
Resized(kind, w, h) ==
    /\ Running
    /\ \E st \in {resize(program, sample_count, SizeState, w, h)} :
           /\ size' = st.size
           /\ config' = st.config
           /\ project_mat' = st.project_mat
           /\ depth_texture_view' = st.depth
           /\ msaa_texture_view' = st.msaa
           /\ ops' = st.calls
    /\ event' = Event(kind, <<w, h>>)
    /\ UNCHANGED <<triangle, loader, terrains, inputs, pc, error, device_init, buffers, cs_bind_groups,
                   resolution, index_count, control_flow, redraw, exit_code,
                   now, timers, anim, metaballs, history>>

\* Event::MainEventsCleared: window.request_redraw()
MainEventsCleared ==
    /\ Running
    /\ redraw' = TRUE
    /\ event' = Event("MainEventsCleared", "")
    /\ ops' = <<>>
    /\ UNCHANGED <<triangle, loader, terrains, inputs, pc, error, device_init, buffers, cs_bind_groups,
                   resolution, index_count, size, config, project_mat,
                   depth_texture_view, msaa_texture_view, control_flow,
                   exit_code, now, timers, anim, metaballs, history>>

\* Event::RedrawRequested: update, render and the match on its result
RedrawRequested(result) ==
    /\ Running
    /\ redraw
    /\ redraw' = FALSE
    /\ \E r1 \in draws(program, UpdateState, now, 1),
          r2 \in draws(program, UpdateState, now, 2) :
         \E u \in {update(program, UpdateState, now, now - render_start_time,
                           r1, r2)},
            st \in {IF result = "Lost"
                    THEN resize(program, sample_count, SizeState,
                                lost_size(size)[1], lost_size(size)[2])
                    ELSE SizeState} :
             /\ t0' = u.t0
             /\ start' = u.start
             /\ surface_type' = u.surface_type
             /\ strength' = u.strength
             /\ strength_target' = u.strength_target
             /\ subtract' = u.subtract
             /\ subtract_target' = u.subtract_target
             /\ metaball_positions' = u.metaball_positions
             /\ metaball_array' = u.metaball_array
             /\ auto_times' = IF u.fired THEN <<auto_times[2], now>>
                                         ELSE auto_times
             /\ size' = st.size
             /\ config' = st.config
             /\ project_mat' = st.project_mat
             /\ depth_texture_view' = st.depth
             /\ msaa_texture_view' = st.msaa
             /\ ops' = u.calls
                       \o render(program, resolution, index_count, result)
                       \o st.calls
    /\ frame_time' = now
    /\ integrated' = integrated + rotation_speed * (now - frame_time)
    /\ control_flow' = after_render(result, control_flow)
    /\ event' = Event("RedrawRequested", result)
    /\ UNCHANGED <<triangle, loader, terrains, inputs, pc, error, device_init, buffers, cs_bind_groups,
                   resolution, index_count, exit_code, now,
                   random_shape_change, colormap_direction, colormap_reverse,
                   animation_speed, rotation_speed>>

\* the event loop ends once the control flow is Exit
LoopExit ==
    /\ pc = "running"
    /\ control_flow = "Exit"
    /\ pc' = "exited"
    /\ exit_code' = exit_status(control_flow)
    /\ UNCHANGED <<triangle, loader, terrains, inputs, error, device_init, buffers, cs_bind_groups,
                   resolution, index_count, size, config, project_mat,
                   depth_texture_view, msaa_texture_view, control_flow,
                   redraw, event, ops, now, timers, anim, metaballs, history>>

\* d seconds pass between two events, up to the horizon
Tick(d, horizon) ==
    /\ Running
    /\ now + d <= horizon
    /\ now' = now + d
    /\ UNCHANGED <<triangle, loader, terrains, inputs, pc, error, device_init, buffers, cs_bind_groups,
                   resolution, index_count, size, config, project_mat,
                   depth_texture_view, msaa_texture_view, control_flow,
                   redraw, event, ops, exit_code, timers, anim, metaballs,
                   history>>

\* a session in which no State-changing key is pressed and no time passes
Next ==
    \/ StateNew
    \/ \E key \in QuietKeys : KeyboardInput(key)
    \/ CloseRequested
    \/ \E kind \in {"Resized", "ScaleFactorChanged"}, w \in Dims, h \in Dims :
          Resized(kind, w, h)
    \/ MainEventsCleared
    \/ \E result \in SurfaceResults : RedrawRequested(result)
    \/ LoopExit

Spec == Init /\ [][Next]_vars

\* the program from the start of main, with arguments that may be wrong
ConfigRequested == {MaxRequested, resolution_default}

InitConfig ==
    Boot(Programs, Builds, ConfigRequested, SampleCounts, Sizes,
         {"number", "text"}, {"jet", "unknown"}, {BallsAtRest}, "main")

NextConfig ==
    \/ Main
    \/ StateNew
    \/ \E key \in QuietKeys : KeyboardInput(key)
    \/ CloseRequested
    \/ \E kind \in {"Resized", "ScaleFactorChanged"}, w \in Dims, h \in Dims :
          Resized(kind, w, h)
    \/ MainEventsCleared
    \/ \E result \in SurfaceResults : RedrawRequested(result)
    \/ LoopExit

SpecConfig == InitConfig /\ [][NextConfig]_vars

\* both programs for one accepted resolution, with every window event
InitResize ==
    Boot(Programs, {"release"}, {MaxRequested}, SampleCounts, Sizes,
         {"number"}, {"jet"}, {BallsAtRest}, "new")

NextResize ==
    \/ StateNew
    \/ \E key \in QuietKeys : KeyboardInput(key)
    \/ CloseRequested
    \/ \E kind \in {"Resized", "ScaleFactorChanged"}, w \in Dims, h \in Dims :
          Resized(kind, w, h)
    \/ MainEventsCleared
    \/ \E result \in SurfaceResults : RedrawRequested(result)
    \/ LoopExit

SpecResize == InitResize /\ [][NextResize]_vars

\* both programs with the keys that do not act on the speeds
InputKeys == Keys \ {"Q", "A", "W", "S"}

InitInput ==
    Boot(Programs, {"release"}, {MaxRequested}, {1}, {<<1, 1>>},
         {"number"}, {"jet"}, {BallsAtRest}, "new")

NextInput ==
    \/ StateNew
    \/ \E key \in InputKeys : KeyboardInput(key)
    \/ CloseRequested
    \/ \E kind \in {"Resized", "ScaleFactorChanged"}, w \in Dims, h \in Dims :
          Resized(kind, w, h)
    \/ MainEventsCleared
    \/ \E result \in SurfaceResults : RedrawRequested(result)
    \/ LoopExit

SpecInput == InitInput /\ [][NextInput]_vars

\* both programs with the speed keys, speeds up to MaxSpeed
InitSpeed ==
    Boot(Programs, {"release"}, {MaxRequested}, {1}, {<<1, 1>>},
         {"number"}, {"jet"}, {BallsAtRest}, "new")

NextSpeed ==
    \/ StateNew
    \/ \E key \in {"Q", "A", "W", "S"} : KeyboardInput(key)
    \/ MainEventsCleared
    \/ RedrawRequested("Ok")

SpecSpeed == InitSpeed /\ [][NextSpeed]_vars

\* the implicit surface program over MaxTime seconds, with the keys that
\* act on the surface
InitShape ==
    Boot({"implicit"}, {"release"}, {MaxRequested}, {1}, {<<1, 1>>},
         {"number"}, {"jet"}, {BallsAtRest}, "new")

NextShape ==
    \/ StateNew
    \/ \E key \in {"LShift", "Space"} : KeyboardInput(key)
    \/ MainEventsCleared
    \/ RedrawRequested("Ok")
    \/ \E d \in 1..MaxStep : Tick(d, MaxTime)

SpecShape == InitShape /\ [][NextShape]_vars

\* the implicit surface program with the rotation keys, over a session
\* shorter than the period of the surface timer
InitRotation ==
    Boot({"implicit"}, {"release"}, {MaxRequested}, {1}, {<<1, 1>>},
         {"number"}, {"jet"}, {BallsAtRest}, "new")

NextRotation ==
    \/ StateNew
    \/ \E key \in {"W", "S"} : KeyboardInput(key)
    \/ MainEventsCleared
    \/ RedrawRequested("Ok")
    \/ \E d \in 1..MaxStep : Tick(d, period - 1)

SpecRotation == InitRotation /\ [][NextRotation]_vars

\* the metaball program over BallTime seconds, for every draw of the balls;
\* a redraw is requested when the clock has moved since the last frame
InitBalls ==
    Boot({"metaball"}, {"release"}, {MaxRequested}, {1}, {<<1, 1>>},
         {"number"}, {"jet"}, BallSets, "new")

NextBalls ==
    \/ StateNew
    \/ now > frame_time /\ MainEventsCleared
    \/ RedrawRequested("Ok")
    \/ \E d \in 1..MaxStep : Tick(d, BallTime)

SpecBalls == InitBalls /\ [][NextBalls]_vars

\* ---------------------------------------------------------------- claims
Constructed == pc \in {"running", "exited"}

BufferSize(name) ==
    (CHOOSE i \in 1..Len(buffers) : buffers[i].name = name)

SizeOf(name) == buffers[BufferSize(name)].size

Calls(o) == {i \in 1..Len(ops) : ops[i].op = o}

PassCalls == Calls("begin_compute_pass") \cup Calls("begin_render_pass")

EncodeCalls == Calls("create_command_encoder") \cup PassCalls

Frame == event.kind = "RedrawRequested"

\* C1: the stored resolution is the requested one rounded up to a multiple
\* of the tile side, so it is divisible by the tile and both compute passes
\* dispatch resolution/tile workgroups per axis without remainder.
C1_DispatchAligned ==
    Constructed =>
        /\ mod_small(resolution, tile(program)) = 0
        /\ Le(u32(requested), resolution)
        /\ Lt(wrapping_sub(resolution, u32(requested)), u32(tile(program)))
        /\ \A i \in Calls("submit") : \A k \in {1, 2} :
              LET d == ops[i].a[k].dispatch
              IN  /\ d[1] = d[2] /\ d[2] = d[3]
                  /\ wrapping_mul(d[1], u32(tile(program))) = resolution

C1_Witness ==
    /\ pc = "running"
    /\ requested % tile(program) # 0
    /\ Calls("submit") # {}

\* C2: the cell count behind index_count and the index buffer size is
\* (N-1)^3 for the effective resolution N, for every requested resolution.
C2_CellsOfEffectiveResolution ==
    (Constructed /\ requested >= 2) =>
        LET n1 == wrapping_sub(resolution, u32(1))
            M == wrapping_mul(wrapping_mul(n1, n1), n1)
        IN  /\ index_count = wrapping_mul(u32(15), M)
            /\ SizeOf("index") = wrapping_mul(u32(4), wrapping_mul(u32(15), M))

\* C3: the position, normal and color buffers each hold 4*3*12*M*4 bytes,
\* M being the cell count behind index_count, so that all 36*M slots of 16
\* bytes lie inside each buffer.
C3_VertexBufferBytes ==
    (Constructed /\ requested >= 2) =>
        LET M == div_small(index_count, 15)
        IN  \A name \in {"position", "normal", "color"} :
               /\ SizeOf(name) = mul_u64(4 * 3 * 12 * 4, M)
               /\ Le(mul_u64(16, mul_u64(3 * 12, M)), SizeOf(name))

\* C4: the index buffer holds 4*15*M bytes, index_count is 15*M and every
\* draw reads index_count indices, so no draw reads past the index buffer.
C4_DrawWithinIndexBuffer ==
    (Constructed /\ requested >= 2) =>
        LET M == marching_cube_cells(u32(requested))
        IN  /\ SizeOf("index") = mul_u64(4 * 15, M)
            /\ index_count = mul_u64(15, M)
            /\ \A i \in Calls("submit") :
                  /\ ops[i].a[3].draw = index_count
                  /\ Le(mul_u64(4, ops[i].a[3].draw), SizeOf("index"))

\* C5: a requested resolution below 2, or one whose volume exceeds the
\* storage-buffer ceiling, makes the construction fail with
\* InvalidResolution before any buffer is created from it.
C5_InvalidResolutionRejected ==
    LET resol == round_to_multiple(u32(requested), tile(program))
        invalid == \/ requested < 2
                   \/ mul_overflows(resol, resol)
                   \/ mul_overflows(wrapping_mul(resol, resol), resol)
                   \/ Lt(max_storage_buffer_binding_size(program),
                         mul_u64(4, volume_elements(resol)))
    IN  (pc # "new" /\ invalid) =>
            /\ pc = "panicked"
            /\ error = "InvalidResolution"
            /\ buffers = <<>>

\* C6: in every redraw the uniform uploads come before any encoding, the
\* command buffer is submitted exactly once after the three passes were
\* recorded, and the frame is presented only after that submit.
C6_FrameStageOrder ==
    Frame =>
        /\ ops[1].op = "write_buffer"
        /\ \A i \in Calls("write_buffer") : \A j \in EncodeCalls : i < j
        /\ event.key = "Ok" =>
              /\ Cardinality(Calls("submit")) = 1
              /\ Cardinality(Calls("present")) = 1
        /\ \A i \in Calls("submit") :
              /\ Cardinality(PassCalls) = 3
              /\ \A j \in EncodeCalls : j < i
        /\ \A i \in Calls("present") : \E j \in Calls("submit") : j < i

C6_Witness == Frame /\ Calls("present") # {}

\* C7: every submitted command buffer holds the field pass (pipeline 0,
\* bind group 0), then the extraction pass (pipeline 1, bind group 1), then
\* the render pass over the position, normal, color and index buffers.
C7_PassOrder ==
    \A i \in Calls("submit") :
        LET cb == ops[i].a
        IN  /\ Len(cb) = 3
            /\ cb[1].pass = "compute" /\ cb[1].pipeline = 0 /\ cb[1].bind_group = 0
            /\ cb[2].pass = "compute" /\ cb[2].pipeline = 1 /\ cb[2].bind_group = 1
            /\ cb[3].pass = "render"
            /\ cb[3].vertex_buffers = <<1, 2, 3>>
            /\ cb[3].draw = index_count

C7_Witness == Frame /\ Calls("submit") # {} /\ program = "metaball"

\* C8: a frame whose surface texture acquisition fails with Timeout or
\* Outdated encodes, submits and presents nothing, and the loop goes on.
C8_SkippedFrame ==
    (Frame /\ event.key \in {"Timeout", "Outdated"}) =>
        /\ EncodeCalls = {}
        /\ Calls("submit") = {}
        /\ Calls("present") = {}
        /\ pc = "running"
        /\ control_flow = "Poll"
        /\ exit_code = -1
        /\ ENABLED MainEventsCleared

C8_Witness == Frame /\ event.key = "Outdated" /\ Len(ops) > 0

\* C9: after a frame that reports a lost surface the surface is configured
\* and the depth view rebuilt at the current size, the MSAA view exactly
\* when sample_count > 1, the loop goes on, and no frame changes the
\* storage buffers, the resolution or index_count.
C9_LostRecovery ==
    /\ [](Frame /\ event.key = "Lost" =>
            /\ \E i \in Calls("configure") : ops[i].a = size
            /\ \E i \in Calls("create_depth_view") : ops[i].a = size
            /\ (sample_count > 1) <=> (Calls("create_msaa_texture_view") # {})
            /\ config = size
            /\ depth_texture_view = size
            /\ pc = "running"
            /\ control_flow = "Poll")
    /\ [][event'.kind = "RedrawRequested" =>
            UNCHANGED <<buffers, resolution, index_count, size>>]_vars

C9_Witness ==
    /\ Frame /\ event.key = "Lost"
    /\ size = <<1, 2>>
    /\ sample_count > 1
    /\ Calls("create_msaa_texture_view") # {}

\* C10: the exit status is 0 after a close request or Escape and non-zero
\* after render returned OutOfMemory.
C10_ExitStatusDistinguishes ==
    pc = "exited" =>
        /\ event.kind \in {"CloseRequested", "KeyboardInput"} => exit_code = 0
        /\ event.kind = "RedrawRequested" => exit_code # 0
\* C11: a configuration error -- a numeric command line argument that does
\* not parse as u32, or an unknown colormap name -- stops the program before
\* the GPU device is requested
ConfigError ==
    parse_u32(cli) = "Err" \/ colormap_data(colormap_name) # "palette"

C11_ConfigErrorBeforeDevice ==
    ConfigError /\ pc \notin {"main", "new"}
        => pc = "panicked" /\ ~device_init

\* the State fields that resize has no business with
ResizeKeeps ==
    <<buffers, resolution, index_count, anim, timers, metaballs>>

ResizeKinds == {"Resized", "ScaleFactorChanged"}

\* the step is the handling of a resize event for the size event'.key
ResizeStep ==
    /\ event'.kind \in ResizeKinds
    /\ Resized(event'.kind, event'.key[1], event'.key[2])

\* C12: resize with a zero width or a zero height is a no-op: init.size, the
\* surface configuration, project_mat, the depth and multisample views and
\* every other State field stay as they are and no queue write is issued
C12_ZeroResizeNoOp ==
    [][ResizeStep /\ (event'.key[1] = 0 \/ event'.key[2] = 0)
              => /\ UNCHANGED <<size, config, project_mat, depth_texture_view,
                                msaa_texture_view, ResizeKeeps>>
                 /\ ops' = <<>>]_vars

C12_Witness ==
    /\ event.kind \in ResizeKinds
    /\ event.key[1] = 0 \/ event.key[2] = 0
    /\ event.key[1] > 0 \/ event.key[2] > 0
    /\ project_mat # <<0, 0>>

\* C13: resize with both sides non-zero rebuilds the depth view, rebuilds
\* the multisample view exactly when sample_count > 1, sets project_mat to
\* the projection of aspect w/h, and leaves the buffers, the resolution,
\* index_count and the animation and colormap parameters alone
C13_ResizeRebuilds ==
    [][ResizeStep /\ event'.key[1] > 0 /\ event'.key[2] > 0
          => LET w == event'.key[1]
                 h == event'.key[2]
             IN  /\ depth_texture_view' = <<w, h>>
                 /\ \E i \in 1..Len(ops') :
                        ops'[i].op = "create_depth_view" /\ ops'[i].a = <<w, h>>
                 /\ (sample_count > 1) <=>
                        (\E i \in 1..Len(ops') :
                            ops'[i].op = "create_msaa_texture_view")
                 /\ sample_count > 1 => msaa_texture_view' = <<w, h>>
                 /\ sample_count <= 1 => msaa_texture_view' = msaa_texture_view
                 /\ project_mat'[1] * h = project_mat'[2] * w
                 /\ size' = <<w, h>> /\ config' = <<w, h>>
                 /\ UNCHANGED ResizeKeeps]_vars

C13_Witness ==
    /\ event.kind \in ResizeKinds
    /\ event.key[1] > 0 /\ event.key[2] > 0
    /\ sample_count = 1
    /\ depth_texture_view = event.key
    /\ Calls("create_depth_view") # {}

\* C14: project_mat depends only on the aspect of the last non-zero size:
\* it is the projection of that aspect in lowest terms, whatever sequence of
\* resizes led to the size
C14_ProjectionOfLastSize ==
    Constructed =>
        /\ project_mat[1] * size[2] = project_mat[2] * size[1]
        /\ gcd(project_mat[1], project_mat[2]) = 1

C14_Witness ==
    /\ event.kind \in ResizeKinds
    /\ event.key = <<MaxDim, MaxDim>>
    /\ size = <<MaxDim, MaxDim>>
    /\ project_mat = <<1, 1>>


\* the step is the handling of a RedrawRequested event
RedrawStep == redraw /\ ~redraw'

\* time of the last timer firing, or of the start
last_auto == IF auto_times[2] < 0 THEN 0 ELSE auto_times[2]

\* C15: in the implicit surface program, while random_shape_change = 0 the
\* surface_type is changed automatically, to a value in 0..8, at the first
\* update at which 5 s or more have passed since the previous automatic
\* change (or the start); two consecutive automatic changes are never less
\* than 5 s apart; while random_shape_change # 0 update never changes
\* surface_type
C15_AutomaticSurfaceChange ==
    /\ [](program = "implicit" /\ auto_times[2] >= 0
            => auto_times[2] - (IF auto_times[1] < 0 THEN 0 ELSE auto_times[1])
                   >= period)
    /\ [][program = "implicit" /\ RedrawStep
            => /\ (random_shape_change = 0 /\ now - last_auto >= period)
                      <=> auto_times' = <<auto_times[2], now>>
               /\ auto_times' # auto_times => surface_type' \in 0..8
               /\ auto_times' = auto_times => surface_type' = surface_type
               /\ random_shape_change # 0 => surface_type' = surface_type]_vars

C15_Witness ==
    /\ program = "implicit"
    /\ Frame
    /\ auto_times[1] >= 0
    /\ auto_times[2] = now
    /\ surface_type = 8

\* C20: in every frame of both programs the 16-byte integer uniform of the
\* extraction pass is written as four u32 words: word 0 the effective
\* resolution, word 2 colormap_direction, word 3 colormap_reverse, each the
\* value State holds after the input events before the frame
C20_ExtractionUniformWords ==
    Frame =>
        \E i \in Calls("write_buffer") :
            /\ ops[i].a = <<"cs_uniform_buffers", 2>>
            /\ ops[i].b = 0
            /\ Len(ops[i].data) = 4
            /\ ops[i].data[1] = resolution
            /\ ops[i].data[3] = u32(colormap_direction)
            /\ ops[i].data[4] = u32(colormap_reverse)


\* C16: the rotation angle is integrated frame by frame, rotation_angle +=
\* rotation_speed * dt with dt the time step of that frame, so that W and S
\* change only the angle accrued after the key press and the angle never
\* jumps at a key press: the angle a frame gives to the model matrix is the
\* sum over the frames so far of rotation_speed * frame step
C16_RotationIntegrated ==
    program = "implicit" /\ Frame =>
        \E i \in Calls("write_buffer") :
            /\ ops[i].a = <<"uniform_buffers", 0>>
            /\ ops[i].b = 64
            /\ ops[i].data = <<integrated>>


\* C17: the metaball targets strength_target and subtract_target are
\* resampled once every 5 s, not every frame: two consecutive resamplings
\* are 5 s apart, and every resampled target lies in [3, 6)
C17_TargetsEveryFiveSeconds ==
    program = "metaball" =>
        /\ auto_times[1] >= 0 => auto_times[2] - auto_times[1] >= period
        /\ auto_times[2] >= 0 =>
               /\ strength_target >= 300 /\ strength_target < 600
               /\ subtract_target >= 300 /\ subtract_target < 600

\* component k of ball i after the acceleration step of the next update
Accelerated(i, k) ==
    accelerate(metaball_positions[i].p[k], metaball_positions[i].v[k],
               metaball_positions[i].speed)

\* component k of ball i after the move of the next update, before the clamp
Moved(i, k) ==
    move(metaball_positions[i].p[k], Accelerated(i, k), now - start)

\* C18: after every metaball update every ball has |x|, |y|, |z| <= 3.1,
\* whatever its initial position and velocity; a velocity component is
\* negated exactly when its position component was clamped, and the other
\* components keep the velocity of the acceleration step
C18_BallsStayInBox ==
    /\ [](program = "metaball" /\ Frame =>
            \A i \in 1..BallCount, k \in 1..3 :
                /\ metaball_positions[i].p[k] <= sz
                /\ metaball_positions[i].p[k] >= -sz)
    /\ [][program = "metaball" /\ RedrawStep =>
            \A i \in 1..BallCount, k \in 1..3 :
                IF Moved(i, k) > sz \/ Moved(i, k) < -sz
                THEN /\ metaball_positions'[i].v[k] = -Accelerated(i, k)
                     /\ metaball_positions'[i].p[k] \in {sz, -sz}
                ELSE /\ metaball_positions'[i].v[k] = Accelerated(i, k)
                     /\ metaball_positions'[i].p[k] = Moved(i, k)]_vars

C18_Witness ==
    /\ program = "metaball"
    /\ Frame
    /\ metaball_positions[1].p[1] = sz
    /\ metaball_positions[1].v[1] < 0
    /\ metaball_positions[1].p[2] > -sz
    /\ metaball_positions[1].v[2] > 0

\* C19: the host metaball array always holds ball_count records of 8 floats
\* {x, y, z, radius, strength, subtract, pad, pad}; after every update
\* record i occupies [8i, 8i+8), its radius is sqrt(strength / subtract) of
\* the current state, the pads are 0 and never written, and the uploaded
\* byte length is the size of the metaball buffer, 32 * ball_count
C19_MetaballArrayLayout ==
    program = "metaball" =>
        /\ Len(metaball_array) = 8 * BallCount
        /\ \A i \in 0..(BallCount - 1) :
              /\ metaball_array[8 * i + 7] = 0
              /\ metaball_array[8 * i + 8] = 0
        /\ Frame =>
              /\ \A i \in 0..(BallCount - 1) :
                    /\ metaball_array[8 * i + 1] = metaball_positions[i + 1].p[1]
                    /\ metaball_array[8 * i + 2] = metaball_positions[i + 1].p[2]
                    /\ metaball_array[8 * i + 3] = metaball_positions[i + 1].p[3]
                    /\ metaball_array[8 * i + 4] * metaball_array[8 * i + 4] * subtract
                           <= 10000 * strength
                    /\ (metaball_array[8 * i + 4] + 1) * (metaball_array[8 * i + 4] + 1)
                           * subtract > 10000 * strength
                    /\ metaball_array[8 * i + 5] = strength
                    /\ metaball_array[8 * i + 6] = subtract
              /\ \E j \in Calls("write_buffer") :
                    /\ ops[j].a = <<"cs_uniform_buffers", 1>>
                    /\ ops[j].b = 0
                    /\ ops[j].data = metaball_array
                    /\ 4 * Len(ops[j].data) = 32 * BallCount
                    /\ 4 * Len(ops[j].data) = balls_buffer_size(BallCount)

C19_Witness ==
    /\ program = "metaball"
    /\ Frame
    /\ strength > subtract
    /\ metaball_array[8 * (BallCount - 1) + 1] # 0
    /\ metaball_array[8 * (BallCount - 1) + 4] > 100


\* the step is the handling of a pressed key event'.key
KeyStep ==
    /\ event'.kind = "KeyboardInput"
    /\ KeyboardInput(event'.key)

\* the step is the handling of a CloseRequested event
CloseStep ==
    /\ event'.kind = "CloseRequested"
    /\ CloseRequested

\* the key that cycles colormap_direction, and the one that flips
\* colormap_reverse
DirectionKey == IF program = "implicit" THEN "LControl" ELSE "Space"

ReverseKey == IF program = "implicit" THEN "LAlt" ELSE "LControl"

\* C21: in both programs colormap_direction is in {0,1,2,3} and
\* colormap_reverse in {0,1} in every reachable state; each press of the
\* direction key sets colormap_direction to (colormap_direction + 1) mod 4,
\* each press of the reverse key flips colormap_reverse, and no other event
\* changes either value
C21_ColormapKeys ==
    /\ [](Constructed => colormap_direction \in 0..3 /\ colormap_reverse \in 0..1)
    /\ [][pc = "running" =>
            /\ IF KeyStep /\ event'.key = DirectionKey
               THEN colormap_direction' = (colormap_direction + 1) % 4
               ELSE colormap_direction' = colormap_direction
            /\ IF KeyStep /\ event'.key = ReverseKey
               THEN colormap_reverse' = 1 - colormap_reverse
               ELSE colormap_reverse' = colormap_reverse]_vars

C21_Witness ==
    /\ program = "metaball"
    /\ event = Event("KeyboardInput", "Space")
    /\ colormap_direction = 0
    /\ colormap_reverse = 1

\* C22: animation_speed and rotation_speed are never negative: Q and W add
\* 0.1, A and S subtract 0.1 and clamp at 0, and a decrement from a value
\* below 0.1 gives exactly 0
C22_SpeedsNotNegative ==
    /\ [](animation_speed >= 0 /\ rotation_speed >= 0)
    /\ [][program = "implicit" /\ KeyStep =>
            /\ event'.key = "Q" => animation_speed' = animation_speed + 1
            /\ event'.key = "W" => rotation_speed' = rotation_speed + 1
            /\ event'.key = "A" =>
                  animation_speed' = IF animation_speed < 1 THEN 0
                                     ELSE animation_speed - 1
            /\ event'.key = "S" =>
                  rotation_speed' = IF rotation_speed < 1 THEN 0
                                    ELSE rotation_speed - 1
            /\ event'.key \notin {"Q", "A"} => animation_speed' = animation_speed
            /\ event'.key \notin {"W", "S"} => rotation_speed' = rotation_speed]_vars

C22_Witness ==
    /\ program = "implicit"
    /\ event = Event("KeyboardInput", "S")
    /\ rotation_speed = 0
    /\ animation_speed = MaxSpeed
    /\ frame_time = 0 /\ redraw

\* C23: a CloseRequested event or a pressed Escape key always sets the
\* control flow to Exit; a key press consumed by input never triggers exit
\* or resize; and exit requests are events of their own, handled outside the
\* update and render of a frame
C23_ExitRequests ==
    /\ [](Running => ENABLED CloseRequested /\ ENABLED KeyboardInput("Escape"))
    /\ [][/\ CloseStep => control_flow' = "Exit" /\ ops' = <<>>
          /\ KeyStep /\ event'.key = "Escape" =>
                control_flow' = "Exit" /\ ops' = <<>>
          /\ KeyStep /\ input(program, event'.key) =>
                /\ control_flow' = control_flow
                /\ ops' = <<>>
                /\ UNCHANGED <<size, config, project_mat, depth_texture_view,
                               msaa_texture_view>>
          /\ RedrawStep /\ control_flow' = "Exit" =>
                event'.key = "OutOfMemory"]_vars

C23_Witness ==
    /\ event = Event("KeyboardInput", "Escape")
    /\ control_flow = "Exit"
    /\ pc = "running"
    /\ size = <<MaxDim, MaxDim>>

\* C26: in the implicit surface program surface_type is in 0..8 in every
\* reachable state: it starts at 2, a Space press sets it to
\* (surface_type + 1) mod 9 and an automatic change draws from 0..8, so the
\* surfaces 9 and 10 of the enumeration are never selected
C26_SurfaceTypeRange ==
    /\ [](program = "implicit" /\ Constructed =>
            /\ surface_type \in 0..8
            /\ event.kind = "New" => surface_type = 2)
    /\ [][program = "implicit" /\ KeyStep /\ event'.key = "Space" =>
            surface_type' = (surface_type + 1) % 9]_vars

C26_Witness ==
    /\ program = "implicit"
    /\ event = Event("KeyboardInput", "Space")
    /\ surface_type = 0
    /\ auto_times[2] >= 0


\* writes of the last handler to the named buffer
WritesTo(name) ==
    {i \in Calls("write_buffer") : ops[i].a[1] = name}

\* C24: the table buffer is written only at initialization, EDGE_TABLE at
\* byte offset 0 and TRI_TABLE right after it at offset 4 * |EDGE_TABLE|,
\* the two writes disjoint and together covering the whole buffer of
\* 4 * (|EDGE_TABLE| + |TRI_TABLE|) bytes; no later operation writes the
\* table buffer or the colormap buffer
C24_TablesWrittenOnce ==
    /\ event.kind = "New" /\ pc = "running" =>
          /\ Len(ops) = 2 /\ WritesTo("cs_table_buffer") = {1, 2}
          /\ ops[1].b = 0
          /\ ops[1].data.table = "EDGE_TABLE"
          /\ ops[2].b = ops[1].b + 4 * ops[1].data.words
          /\ ops[2].data.table = "TRI_TABLE"
          /\ ops[2].b + 4 * ops[2].data.words = table_buffer_size
          /\ table_buffer_size = 4 * (EDGE_TABLE_len + TRI_TABLE_len)
    /\ event.kind # "New" =>
          /\ WritesTo("cs_table_buffer") = {}
          /\ WritesTo("cs_colormap_buffer") = {}

C24_Witness ==
    /\ Frame
    /\ event.key = "Lost"
    /\ program = "metaball"
    /\ Calls("write_buffer") # {}
    /\ colormap_direction = 0

\* the buffers bound by a bind group, in binding order
Bound(group) == [i \in 1..Len(group) |-> group[i].buffer]

\* C25: the extraction bind group of both programs binds at 0..9, in this
\* order, (T, V, P, Nrm, Col, I, Ind, CM, Iu, Fu), with T, V and CM read-only
\* storage, P, Nrm, Col, I and Ind read-write storage and the last two
\* uniform; V is the buffer the field pass writes at its binding 0; P, Nrm,
\* Col and I are the buffers the render pass uses as vertex buffers 0, 1, 2
\* and as index buffer
C25_ExtractionBindings ==
    Constructed =>
        /\ Len(cs_bind_groups) = 2
        /\ Bound(cs_bind_groups[2]) =
              <<"cs_table_buffer", "cs_value_buffer", "cs_position_buffer",
                "cs_normal_buffer", "cs_color_buffer", "cs_index_buffer",
                "cs_indirect_buffer", "cs_colormap_buffer", "cs_int_buffer",
                "cs_float_buffer">>
        /\ \A i \in {1, 2, 8} : cs_bind_groups[2][i].ty = "storage_ro"
        /\ \A i \in 3..7 : cs_bind_groups[2][i].ty = "storage_rw"
        /\ \A i \in 9..10 : cs_bind_groups[2][i].ty = "uniform"
        /\ cs_bind_groups[1][1] =
              Binding(cs_bind_groups[2][2].buffer, "storage_rw")
        /\ \A i \in Calls("submit") :
              LET cb == ops[i].a
              IN  /\ cb[1].bind_group = 0 /\ cb[2].bind_group = 1
                  /\ \A k \in 1..3 :
                        cs_vertex_buffers[cb[3].vertex_buffers[k] + 1]
                            = cs_bind_groups[2][k + 2].buffer
                  /\ cb[3].index_buffer = cs_bind_groups[2][6].buffer

C25_Witness ==
    /\ Frame
    /\ Calls("submit") # {}
    /\ program = "implicit"
    /\ event.key = "Ok"
    /\ colormap_reverse = 1

\* ================================================ the Vulkan triangle
\* App::resumed: the window is created and the render context built
Resumed ==
    /\ tri_pc = "new"
    /\ \E w \in Dims \ {0}, h \in Dims \ {0} :
          /\ window_size' = <<w, h>>
          /\ rcx' = <<resumed(<<w, h>>)>>
    /\ tri_pc' = "running"
    /\ tri_event' = TriEvent("Resumed", "", "", "return")
    /\ tri_ops' = <<>>
    /\ UNCHANGED <<wgpu, tri_queue, loader, terrains>>

\* the window system gives the window a new size and queues Resized
WindowResizes(w, h) ==
    /\ tri_pc = "running"
    /\ <<w, h>> # window_size
    /\ window_size' = <<w, h>>
    /\ tri_queue' = [tri_queue EXCEPT !.resized = TRUE]
    /\ UNCHANGED <<wgpu, tri_pc, rcx, tri_event, tri_ops, loader, terrains>>

\* window_event, WindowEvent::Resized
TriResized ==
    /\ tri_pc = "running"
    /\ tri_queue.resized
    /\ rcx' = <<[rcx[1] EXCEPT !.recreate_swapchain = TRUE]>>
    /\ tri_queue' = [tri_queue EXCEPT !.resized = FALSE]
    /\ tri_event' = TriEvent("Resized", "", "", "return")
    /\ tri_ops' = <<>>
    /\ UNCHANGED <<wgpu, tri_pc, window_size, loader, terrains>>

\* window_event, WindowEvent::CloseRequested
TriCloseRequested ==
    /\ tri_pc = "running"
    /\ tri_pc' = "exited"
    /\ tri_event' = TriEvent("CloseRequested", "", "", "return")
    /\ tri_ops' = <<>>
    /\ UNCHANGED <<wgpu, window_size, rcx, tri_queue, loader, terrains>>

\* App::about_to_wait
AboutToWait ==
    /\ tri_pc = "running"
    /\ ~tri_queue.redraw
    /\ tri_queue' = [tri_queue EXCEPT !.redraw = TRUE]
    /\ UNCHANGED <<wgpu, tri_pc, window_size, rcx, tri_event, tri_ops,
                   loader, terrains>>

\* window_event, WindowEvent::RedrawRequested
TriRedrawRequested(recreate, acquire, flush) ==
    /\ tri_pc = "running"
    /\ tri_queue.redraw
    /\ \E res \in {redraw_requested(rcx[1], window_size, recreate, acquire,
                                    flush)} :
          /\ rcx' = <<res.rcx>>
          /\ tri_ops' = res.ops
          /\ tri_pc' = IF res.end = "return" THEN "running" ELSE "panicked"
          /\ tri_event' =
                TriEvent("RedrawRequested",
                         IF \E i \in 1..Len(res.ops) :
                                res.ops[i].op = "acquire_next_image"
                         THEN acquire ELSE "",
                         IF \E i \in 1..Len(res.ops) : res.ops[i].op = "take"
                         THEN flush ELSE "",
                         res.end)
    /\ tri_queue' = [tri_queue EXCEPT !.redraw = FALSE]
    /\ UNCHANGED <<wgpu, window_size, loader, terrains>>

\* the wgpu programs are not running
WgpuIdle ==
    BootState({"implicit"}, {"release"}, {MaxRequested}, {1}, {<<1, 1>>},
              {"number"}, {"jet"}, {BallsAtRest}, "off")

InitTriangle ==
    /\ WgpuIdle
    /\ tri_pc = "new"
    /\ window_size = <<0, 0>>
    /\ rcx = <<>>
    /\ tri_queue = [redraw |-> FALSE, resized |-> FALSE]
    /\ tri_event = TriEvent("Init", "", "", "")
    /\ tri_ops = <<>>
    /\ LoaderIdle
    /\ TerrainIdle

NextTriangle ==
    \/ Resumed
    \/ \E w \in Dims, h \in Dims : WindowResizes(w, h)
    \/ TriResized
    \/ TriCloseRequested
    \/ AboutToWait
    \/ \E recreate \in RecreateResults, acquire \in AcquireResults,
          flush \in FlushResults :
          TriRedrawRequested(recreate, acquire, flush)

SpecTriangle == InitTriangle /\ [][NextTriangle]_vars

TriRedrawStep ==
    /\ tri_pc = "running"
    /\ tri_queue.redraw
    /\ ~tri_queue'.redraw

TriCalls(o) == {i \in 1..Len(tri_ops) : tri_ops[i].op = o}

TriCallsNext(o) == {i \in 1..Len(tri_ops') : tri_ops'[i].op = o}

\* C27: once recreate_swapchain is set (only a Resized event, an out of date
\* or suboptimal acquisition or an out of date flush set it), the next
\* RedrawRequested of a window with area recreates the swapchain and the
\* framebuffers and updates the viewport extent, all for the window's size,
\* before it acquires an image; only that recreation clears the flag; a
\* RedrawRequested of a window without area changes nothing.
C27_RecreateSwapchain ==
    [][/\ (tri_pc = "running" /\ tri_pc' = "running"
           /\ ~rcx[1].recreate_swapchain /\ rcx'[1].recreate_swapchain)
          => \/ tri_event'.kind = "Resized" /\ tri_queue.resized
             \/ /\ TriRedrawStep
                /\ \/ tri_event'.acquire \in {"OutOfDate", "Suboptimal"}
                   \/ tri_event'.flush = "OutOfDate"
       /\ (TriRedrawStep /\ rcx[1].recreate_swapchain
           /\ ~zero_area(window_size) /\ tri_event'.end # "panic recreate")
          => /\ TriCallsNext("recreate") # {}
             /\ \A i \in TriCallsNext("recreate") :
                   /\ tri_ops'[i].extent = window_size
                   /\ \A j \in TriCallsNext("acquire_next_image") : i < j
             /\ TriCallsNext("acquire_next_image") # {}
             /\ \A j \in TriCallsNext("acquire_next_image") :
                   tri_ops'[j].extent = window_size
             /\ rcx'[1].swapchain = window_size
             /\ rcx'[1].framebuffers = window_size
             /\ rcx'[1].viewport = window_size
             /\ \A j \in TriCallsNext("draw") :
                   tri_ops'[j].extent = window_size
       /\ (tri_pc = "running" /\ tri_pc' = "running"
           /\ rcx[1].recreate_swapchain /\ ~rcx'[1].recreate_swapchain)
          => /\ TriRedrawStep
             /\ TriCallsNext("recreate") # {}
       /\ (TriRedrawStep /\ zero_area(window_size))
          => /\ UNCHANGED <<rcx, window_size, tri_pc>>
             /\ tri_ops' = <<>>
      ]_vars

\* a frame that recreated the swapchain for a resized window and drew
C27_Witness ==
    /\ tri_pc = "running"
    /\ tri_event.kind = "RedrawRequested"
    /\ TriCalls("recreate") # {}
    /\ TriCalls("draw") # {}
    /\ rcx[1].viewport = <<MaxDim, 1>>
    /\ ~rcx[1].recreate_swapchain

\* C28: previous_frame_end is Some whenever window_event has returned, so
\* at the start of every RedrawRequested; it is taken only after an image
\* was acquired; no unwrap of it fails.
C28_PreviousFrameEnd ==
    /\ tri_pc = "running" => rcx[1].previous_frame_end = "Some"
    /\ tri_event.end # "panic unwrap"
    /\ \A i \in TriCalls("take") :
          /\ tri_event.acquire \in {"Ok", "Suboptimal"}
          /\ \E j \in TriCalls("acquire_next_image") : j < i

\* a frame whose flush was out of date has returned
C28_Witness ==
    /\ tri_pc = "running"
    /\ tri_event.kind = "RedrawRequested"
    /\ tri_event.flush = "OutOfDate"
    /\ TriCalls("take") # {}
    /\ rcx[1].previous_frame_end = "Some"

\* ======================================================= ShaderLoader
\* a shader file is saved; the watcher, while it lives, sends an event
FileChanged(k) ==
    /\ ld_pc # "off"
    /\ files[1] + files[2] < MaxEdits
    /\ files' = [files EXCEPT ![k] = @ + 1]
    /\ channel' = IF channel.sender
                  THEN [channel EXCEPT !.events = @ + 1]
                  ELSE channel
    /\ ld_event' = "file changed"
    /\ UNCHANGED <<wgpu, triangle, ld_pc, ld_local, shader_module, mutex,
                   observed, terrains>>

\* `watcher` is a local of watch_for_changes: it is dropped on return, and
\* the sender with it once the watcher's own thread has shut down
WatcherDropped ==
    /\ ld_pc # "off"
    /\ channel.sender
    /\ channel' = [channel EXCEPT !.sender = FALSE]
    /\ ld_event' = "watcher dropped"
    /\ UNCHANGED <<wgpu, triangle, ld_pc, ld_local, files, shader_module,
                   mutex, observed, terrains>>

\* rx.recv() returns Ok(event): a reload starts
RecvOk ==
    /\ ld_pc = "recv"
    /\ channel.events > 0
    /\ channel' = [channel EXCEPT !.events = @ - 1]
    /\ ld_local' = [ld_local EXCEPT !.reload = @ + 1]
    /\ ld_pc' = "read_vert"
    /\ ld_event' = "File changed"
    /\ UNCHANGED <<wgpu, triangle, files, shader_module, mutex, observed,
                   terrains>>

\* rx.recv() returns Err: the channel is empty and the sender is gone
RecvErr ==
    /\ ld_pc = "recv"
    /\ channel.events = 0
    /\ ~channel.sender
    /\ ld_pc' = after_recv_error(ld_pc)
    /\ ld_event' = "watch error"
    /\ UNCHANGED <<wgpu, triangle, ld_local, files, channel, shader_module,
                   mutex, observed, terrains>>

\* read_to_string(&self.vert_shader_path).unwrap()
ReadVert(ok) ==
    /\ ld_pc = "read_vert"
    /\ IF ok
       THEN /\ ld_local' = [ld_local EXCEPT !.vert_code = files[1]]
            /\ ld_pc' = "read_frag"
       ELSE /\ ld_pc' = "dead"
            /\ UNCHANGED ld_local
    /\ ld_event' = "read vert"
    /\ UNCHANGED <<wgpu, triangle, files, channel, shader_module, mutex,
                   observed, terrains>>

\* read_to_string(&self.frag_shader_path).unwrap()
ReadFrag(ok) ==
    /\ ld_pc = "read_frag"
    /\ IF ok
       THEN /\ ld_local' = [ld_local EXCEPT !.frag_code = files[2]]
            /\ ld_pc' = "compile"
       ELSE /\ ld_pc' = "dead"
            /\ UNCHANGED ld_local
    /\ ld_event' = "read frag"
    /\ UNCHANGED <<wgpu, triangle, files, channel, shader_module, mutex,
                   observed, terrains>>

\* the device is opened and both modules are compiled, each with unwrap
Compile(ok) ==
    /\ ld_pc = "compile"
    /\ ld_pc' = IF ok THEN "lock" ELSE "dead"
    /\ ld_event' = "compile"
    /\ UNCHANGED <<wgpu, triangle, ld_local, files, channel, shader_module,
                   mutex, observed, terrains>>

\* self.shader_module.lock().unwrap() in the watcher thread
WatcherLock ==
    /\ ld_pc = "lock"
    /\ mutex = "free"
    /\ mutex' = "watcher"
    /\ ld_pc' = "store"
    /\ ld_event' = "watcher lock"
    /\ UNCHANGED <<wgpu, triangle, ld_local, files, channel, shader_module,
                   observed, terrains>>

\* the assignment under the lock, and the guard dropped at the block's end
Store ==
    /\ ld_pc = "store"
    /\ shader_module' =
          publish(shader_module,
                  Module(ld_local.reload, ld_local.vert_code),
                  Module(ld_local.reload, ld_local.frag_code))
    /\ mutex' = "free"
    /\ ld_pc' = "recv"
    /\ ld_event' = "store"
    /\ UNCHANGED <<wgpu, triangle, ld_local, files, channel, observed,
                   terrains>>

\* a reader locks the mutex returned by get_shaders
ReaderLock ==
    /\ ld_pc # "off"
    /\ mutex = "free"
    /\ mutex' = "reader"
    /\ ld_event' = "reader lock"
    /\ UNCHANGED <<wgpu, triangle, ld_pc, ld_local, files, channel,
                   shader_module, observed, terrains>>

\* the reader looks at the value and drops its guard
ReaderRead ==
    /\ mutex = "reader"
    /\ observed' = shader_module
    /\ mutex' = "free"
    /\ ld_event' = "reader read"
    /\ UNCHANGED <<wgpu, triangle, ld_pc, ld_local, files, channel,
                   shader_module, terrains>>

\* after ShaderLoader::new: the thread is spawned, nothing is published
InitLoader ==
    /\ WgpuIdle
    /\ TriangleIdle
    /\ ld_pc = "recv"
    /\ ld_local = NoLocals
    /\ files = <<0, 0>>
    /\ channel = [events |-> 0, sender |-> TRUE]
    /\ shader_module = <<>>
    /\ mutex = "free"
    /\ observed = <<>>
    /\ ld_event = "Init"
    /\ TerrainIdle

NextLoader ==
    \/ \E k \in 1..2 : FileChanged(k)
    \/ WatcherDropped
    \/ RecvOk
    \/ RecvErr
    \/ \E ok \in BOOLEAN : ReadVert(ok)
    \/ \E ok \in BOOLEAN : ReadFrag(ok)
    \/ \E ok \in BOOLEAN : Compile(ok)
    \/ WatcherLock
    \/ Store
    \/ ReaderLock
    \/ ReaderRead

SpecLoader == InitLoader /\ [][NextLoader]_vars

\* None, or two modules compiled during the same reload
SameReload(v) == v = <<>> \/ v[1].reload = v[2].reload

\* C29: the shared value and whatever a reader saw under the lock is None or
\* a pair of modules of one reload; a value that is Some never becomes None
\* again; after a receive error the thread is back at rx.recv().
C29_AtomicPublish ==
    /\ [](SameReload(shader_module) /\ SameReload(observed))
    /\ [][/\ shader_module # <<>> => shader_module' # <<>>
          /\ observed # <<>> => observed' # <<>>
          /\ (ld_pc = "recv" /\ ld_event' = "watch error") => ld_pc' = "recv"
         ]_vars

\* a reader has seen the pair of the second reload, published after the
\* watcher was dropped
C29_Witness ==
    /\ observed # <<>>
    /\ observed[1].reload = 2
    /\ shader_module = observed
    /\ ~channel.sender
    /\ ld_event = "watch error"

\* ======================================================== Terrain::new
TerrainNew ==
    /\ tr_pc = "new"
    /\ tr_mesh' = Terrain_new(tr_resolution, tr_noise)
    /\ tr_pc' = "built"
    /\ UNCHANGED <<wgpu, triangle, loader, tr_resolution, tr_noise>>

InitTerrain ==
    /\ WgpuIdle
    /\ TriangleIdle
    /\ LoaderIdle
    /\ tr_pc = "new"
    /\ tr_resolution \in Resolutions
    /\ tr_noise \in NoiseFields(tr_resolution)
    /\ tr_mesh = NoMesh

NextTerrain == TerrainNew

SpecTerrain == InitTerrain /\ [][NextTerrain]_vars

\* the cells of the grid, by their lowest corner
Cells(res) == (0..res - 2) \X (0..res - 2) \X (0..res - 2)

\* the cells for which the mesh holds a vertex
Produced == {<<(v[1] - 1) \div 2, v[2] \div 2, v[3] \div 2>> :
                 v \in {tr_mesh.vertices[i] : i \in 1..Len(tr_mesh.vertices)}}

\* strictly on opposite sides of the level
OppositeSides(v000, v100) ==
    \/ v000 < iso_level /\ v100 > iso_level
    \/ v000 > iso_level /\ v100 < iso_level

\* equal lengths, indices[i] = i, at most one vertex per cell
MeshShape ==
    tr_pc = "built" =>
        /\ Len(tr_mesh.vertices) = Len(tr_mesh.indices)
        /\ \A i \in 1..Len(tr_mesh.indices) : tr_mesh.indices[i] = i - 1
        /\ Cardinality(Produced) = Len(tr_mesh.vertices)
        /\ Produced \subseteq Cells(tr_resolution)
        /\ Len(tr_mesh.vertices)
              <= (tr_resolution - 1) * (tr_resolution - 1)
                     * (tr_resolution - 1)
        /\ tr_resolution = 1 => tr_mesh = NoMesh

TerrainVertexRule ==
    /\ MeshShape
    /\ tr_pc = "built" =>
          \A c \in Cells(tr_resolution) :
              c \in Produced
                  <=> crosses(perlin_get(tr_noise, c),
                              perlin_get(tr_noise, <<c[1] + 1, c[2], c[3]>>))

====
